---- MODULE Spec2Model ----
(***************************************************************************)
(* Model of textgen/Imaging.py: the Imaging class that validates the raw   *)
(* strings of the input form, selects a flux density calibrator and writes *)
(* the calibrator and target blocks of the scheduling text file.           *)
(*                                                                         *)
(* Conventions of the model                                                *)
(*  - A raw string that the code hands to int() or float() is a record     *)
(*    [num, v]: num says whether the conversion succeeds, v is the value.  *)
(*  - A string the code splits is the sequence of its parts: subbandT is   *)
(*    the result of split(','), each item the result of split('..') (one   *)
(*    part exactly when '..' is not in the item); pointT is the result of  *)
(*    splitlines(), each line the result of split(',').                    *)
(*  - Elevations are whole degrees. Times are [day, tick] with tick        *)
(*    counted from midnight of that day in units of 1/TicksPerSec second;  *)
(*    a duration in hours is held as its length in ticks.                  *)
(*  - An exception is the value of err, named after the raised class.      *)
(***************************************************************************)
EXTENDS Integers, Sequences, FiniteSets, TLC

VARIABLES gui, sky, py, self, pc, err, outFile, calibName, nextStart

vars == <<gui, sky, py, self, pc, err, outFile, calibName, nextStart>>

(***************************************************************************)
(* Bounds of the model.                                                    *)
(***************************************************************************)
MaxItems == 2
MaxBeams == 2
MaxBlocks == 3
TicksPerSec == 2

(***************************************************************************)
(* Class attributes.                                                       *)
(***************************************************************************)
VALID_CALIBS == <<"3C295", "3C196", "3C48", "3C147", "3C380">>

VALID_ATEAMS == <<"CasA", "CygA", "TauA", "VirA">>

Range(s) == {s[i] : i \in 1..Len(s)}

Num(n) == [num |-> TRUE, v |-> n]

NaN == [num |-> FALSE, v |-> 0]

NoTime == [day |-> <<0, 0, 0>>, tick |-> 0]

(***************************************************************************)
(* datetime.datetime(y, m, d, H, M, S): the calendar check, then the time. *)
(***************************************************************************)
IsLeap(y) == (y % 4 = 0 /\ y % 100 # 0) \/ y % 400 = 0

DaysInMonth(y, m) ==
    IF m = 2 THEN (IF IsLeap(y) THEN 29 ELSE 28)
    ELSE IF m \in {4, 6, 9, 11} THEN 30 ELSE 31

ValidDateTime(p) ==
    /\ Len(p) = 6
    /\ \A i \in 1..6 : p[i].num
    /\ p[1].v \in 1..9999
    /\ p[2].v \in 1..12
    /\ p[3].v \in 1..DaysInMonth(p[1].v, p[2].v)
    /\ p[4].v \in 0..23
    /\ p[5].v \in 0..59
    /\ p[6].v \in 0..59

MakeDateTime(p) ==
    [day  |-> <<p[1].v, p[2].v, p[3].v>>,
     tick |-> (p[4].v * 3600 + p[5].v * 60 + p[6].v) * TicksPerSec]

(***************************************************************************)
(* datetime + timedelta, with the timedelta given in ticks.                *)
(***************************************************************************)
AddTicks(t, d) == [day |-> t.day, tick |-> t.tick + d]

_getClockFreq(rcumode) ==
    IF rcumode = "170-230 MHz" THEN "160 MHz" ELSE "200 MHz"

(***************************************************************************)
(* _validateSubBands: the check of one item, then the loop over the items  *)
(* in order, which stops at the first item that raises.                    *)
(***************************************************************************)
ValidateItem_RangeTop(item, rcumode) ==
    IF Len(item) = 1
    THEN IF ~item[1].num THEN "InvalidSubBandError"
         ELSE LET s1 == item[1].v IN
              IF rcumode = "30-90 MHz"
              THEN (IF s1 < 154 \/ s1 > 461 THEN "OutOfBoundsSubBandError" ELSE "ok")
              ELSE IF rcumode = "170-230 MHz"
              THEN (IF s1 < 64 \/ s1 > 448 THEN "OutOfBoundsSubBandError" ELSE "ok")
              ELSE (IF s1 < 51 \/ s1 > 461 THEN "OutOfBoundsSubBandError" ELSE "ok")
    ELSE IF ~item[1].num \/ ~item[2].num THEN "InvalidSubBandError"
         ELSE LET s1 == item[1].v
                  s2 == item[2].v IN
              IF s1 > s2 THEN "InvalidSubBandOrderError"
              ELSE IF rcumode = "30-90 MHz"
              THEN (IF s1 < 154 \/ s1 > 461 THEN "OutOfBoundsSubBandError" ELSE "ok")
              ELSE IF rcumode = "170-230 MHz"
              THEN (IF s1 < 64 \/ s1 > 448 THEN "OutOfBoundsSubBandError" ELSE "ok")
              ELSE (IF s1 < 51 \/ s1 > 461 THEN "OutOfBoundsSubBandError" ELSE "ok")

ValidateItem(item, rcumode) ==
    IF Len(item) = 1
    THEN IF ~item[1].num THEN "InvalidSubBandError"
         ELSE LET s1 == item[1].v IN
              IF rcumode = "30-90 MHz"
              THEN (IF s1 < 154 \/ s1 > 461 THEN "OutOfBoundsSubBandError" ELSE "ok")
              ELSE IF rcumode = "170-230 MHz"
              THEN (IF s1 < 64 \/ s1 > 448 THEN "OutOfBoundsSubBandError" ELSE "ok")
              ELSE (IF s1 < 51 \/ s1 > 461 THEN "OutOfBoundsSubBandError" ELSE "ok")
    ELSE IF ~item[1].num \/ ~item[2].num THEN "InvalidSubBandError"
         ELSE LET s1 == item[1].v
                  s2 == item[2].v IN
              IF s1 > s2 THEN "InvalidSubBandOrderError"
              ELSE IF rcumode = "30-90 MHz"
              THEN (IF s1 < 154 \/ s2 > 461 THEN "OutOfBoundsSubBandError" ELSE "ok")
              ELSE IF rcumode = "170-230 MHz"
              THEN (IF s1 < 64 \/ s2 > 448 THEN "OutOfBoundsSubBandError" ELSE "ok")
              ELSE (IF s1 < 51 \/ s2 > 461 THEN "OutOfBoundsSubBandError" ELSE "ok")

RECURSIVE ValidateFrom(_, _, _)
ValidateFrom(items, rcumode, i) ==
    IF i > Len(items) THEN "ok"
    ELSE LET r == ValidateItem(items[i], rcumode) IN
         IF r # "ok" THEN r ELSE ValidateFrom(items, rcumode, i + 1)

_validateSubBands(subbands, rcumode) == ValidateFrom(subbands, rcumode, 1)

(***************************************************************************)
(* _countSubBands, called only after _validateSubBands returned.           *)
(***************************************************************************)
ItemCount_Exclusive(item) ==
    IF Len(item) = 1 THEN 1
    ELSE LET s1 == item[1].v
             s2 == item[2].v IN
         s2 - s1

ItemCount(item) ==
    IF Len(item) = 1 THEN 1
    ELSE LET s1 == item[1].v
             s2 == item[2].v IN
         s2 - s1 + 1

RECURSIVE CountFrom(_, _)
CountFrom(items, i) ==
    IF i > Len(items) THEN 0
    ELSE ItemCount(items[i]) + CountFrom(items, i + 1)

_countSubBands(subbands) == CountFrom(subbands, 1)

(***************************************************************************)
(* _parsePointString: splitStr[1] or splitStr[2] of a line with fewer than *)
(* three fields raises IndexError, at the first such line.                 *)
(***************************************************************************)
Tail3(s) == [i \in 1..(Len(s) - 3) |-> s[i + 3]]

_parsePointString(lines) ==
    IF \E i \in 1..Len(lines) : Len(lines[i]) < 3
    THEN [exc |-> "IndexError",
          targetLabel |-> <<>>, targetRA |-> <<>>, targetDec |-> <<>>,
          demixLabel |-> <<>>]
    ELSE [exc |-> "none",
          targetLabel |-> [i \in 1..Len(lines) |-> lines[i][1]],
          targetRA    |-> [i \in 1..Len(lines) |-> lines[i][2]],
          targetDec   |-> [i \in 1..Len(lines) |-> lines[i][3]],
          demixLabel  |-> [i \in 1..Len(lines) |-> Tail3(lines[i])]]

(***************************************************************************)
(* Imaging.__init__: the checks in the order of the code; the first that   *)
(* fails raises, and then no object exists.                                *)
(***************************************************************************)
NoObject ==
    [mainName |-> "", startTime |-> NoTime, elevation |-> 0, avg |-> <<>>,
     rcumode |-> "", clockFreq |-> "", subbands |-> <<>>, nSubBands |-> 0,
     targetLabel |-> <<>>, targetRA |-> <<>>, targetDec |-> <<>>,
     demixLabel |-> <<>>, nBeams |-> 0, targetObsLength |-> 0]

Raised(e) == [exc |-> e, obj |-> NoObject]

InitObject(g) ==
    IF Len(g.mainNameT) > 20 THEN Raised("TooLongFolderNameError")
    ELSE IF g.mainNameT = "" THEN Raised("InvalidMainFolderNameError")
    ELSE IF ~ValidDateTime(g.dateT) THEN Raised("InvalidDateTimeError")
    ELSE IF ~g.elevationT.num THEN Raised("InvalidElevationError")
    ELSE IF g.elevationT.v < 0 \/ g.elevationT.v > 90
         THEN Raised("InvalidElevationError")
    ELSE IF Len(g.avgT) # 2 THEN Raised("InvalidAverageError")
    ELSE IF ~g.avgT[1].num \/ ~g.avgT[2].num THEN Raised("InvalidAverageError")
    ELSE IF _validateSubBands(g.subbandT, g.freqModeStr) # "ok"
         THEN Raised(_validateSubBands(g.subbandT, g.freqModeStr))
    ELSE LET nSubBands == _countSubBands(g.subbandT)
             p == _parsePointString(g.pointT)
             nBeams == Len(p.targetLabel) IN
         IF p.exc # "none"
         THEN Raised(IF p.exc = "ValueError" THEN "InvalidSubbandError" ELSE p.exc)
         ELSE IF nBeams * nSubBands > 488 THEN Raised("TooManyBeamletsError")
         ELSE IF ~g.durationT.num THEN Raised("InvalidDurationError")
         ELSE IF g.durationT.v < 0 THEN Raised("InvalidDurationError")
         ELSE [exc |-> "none",
               obj |-> [mainName |-> g.mainNameT,
                        startTime |-> MakeDateTime(g.dateT),
                        elevation |-> g.elevationT.v,
                        avg |-> g.avgT,
                        rcumode |-> g.freqModeStr,
                        clockFreq |-> _getClockFreq(g.freqModeStr),
                        subbands |-> g.subbandT,
                        nSubBands |-> nSubBands,
                        targetLabel |-> p.targetLabel,
                        targetRA |-> p.targetRA,
                        targetDec |-> p.targetDec,
                        demixLabel |-> p.demixLabel,
                        nBeams |-> nBeams,
                        targetObsLength |-> g.durationT.v]]

Construct ==
    /\ pc = "new"
    /\ LET r == InitObject(gui) IN
       /\ self' = r.obj
       /\ err' = r.exc
       /\ pc' = IF r.exc = "none" THEN "ready" ELSE "raised"
       /\ nextStart' = r.obj.startTime
    /\ UNCHANGED <<gui, sky, py, outFile, calibName>>

(***************************************************************************)
(* _getCalPointing: the coordinate table, seven entries.                   *)
(***************************************************************************)
CalPointing ==
    [n \in {"3C295", "3C196", "3C48", "3C147", "3C380", "3C286", "CTD93"} |->
        CASE n = "3C295" -> "14:11:20.5;52:12:10"
          [] n = "3C196" -> "08:13:36.0;48:13:03"
          [] n = "3C48"  -> "01:37:41.3;33:09:35"
          [] n = "3C147" -> "05:42:36.1;49:51:07"
          [] n = "3C380" -> "18:29:31.8;48:44:46"
          [] n = "3C286" -> "13:31:08.3;30:30:33"
          [] n = "CTD93" -> "16:09:13.3;26:41:29"]

_getCalPointing(calName) == CalPointing[calName]

(***************************************************************************)
(* The elevation the astronomy library computes for a source at the time   *)
(* and site of the call: sky.cal for a catalog coordinate, sky.tgt[i] for  *)
(* the coordinate of pointing line i.                                      *)
(***************************************************************************)
CalElevation(s, coord) ==
    s.cal[CHOOSE n \in DOMAIN CalPointing : CalPointing[n] = coord]

TargetElevation(s, index) == s.tgt[index]

Abs(x) == IF x < 0 THEN -x ELSE x

(***************************************************************************)
(* np.argmin: the index of the first minimum (1-based here).               *)
(***************************************************************************)
ArgMin_Last(d) ==
    CHOOSE i \in 1..Len(d) :
        /\ \A j \in 1..Len(d) : d[i] <= d[j]
        /\ \A j \in (i + 1)..Len(d) : d[j] > d[i]

ArgMin(d) ==
    CHOOSE i \in 1..Len(d) :
        /\ \A j \in 1..Len(d) : d[i] <= d[j]
        /\ \A j \in 1..(i - 1) : d[j] > d[i]

(***************************************************************************)
(* findCalibrator: the loop over VALID_CALIBS that fills calName and       *)
(* distance, then calName[np.argmin(distance)]. self.targetRA[0] raises    *)
(* IndexError without a pointing; np.argmin of an empty list raises        *)
(* ValueError.                                                             *)
(***************************************************************************)
RECURSIVE CalLoop(_, _, _, _, _)
CalLoop(obj, s, i, calName, distance) ==
    IF i > Len(VALID_CALIBS) THEN [calName |-> calName, distance |-> distance]
    ELSE LET item == VALID_CALIBS[i]
             tempElevation == CalElevation(s, _getCalPointing(item))
             targetElevation == TargetElevation(s, 1) IN
         IF tempElevation > obj.elevation
         THEN CalLoop(obj, s, i + 1, Append(calName, item),
                      Append(distance, Abs(tempElevation - targetElevation)))
         ELSE CalLoop(obj, s, i + 1, calName, distance)

findCalibrator(obj, s) ==
    IF Len(obj.targetRA) = 0 THEN [exc |-> "IndexError", name |-> ""]
    ELSE LET l == CalLoop(obj, s, 1, <<>>, <<>>) IN
         IF Len(l.distance) = 0 THEN [exc |-> "ValueError", name |-> ""]
         ELSE [exc |-> "none", name |-> l.calName[ArgMin(l.distance)]]

FindCalibrator ==
    /\ pc = "ready"
    /\ calibName = ""
    /\ LET r == findCalibrator(self, sky) IN
       /\ calibName' = r.name
       /\ err' = r.exc
       /\ pc' = IF r.exc = "none" THEN "ready" ELSE "raised"
    /\ UNCHANGED <<gui, sky, py, self, outFile, nextStart>>

(***************************************************************************)
(* One outFile.write call: the key of the line and the values formatted    *)
(* into it. A beam line ends with the literal duration of its format       *)
(* string, 1800 for the calibrator and 31200 for a target or the tile      *)
(* beam; the literal 4;1 of the calibrator's Demix line is held as the     *)
(* parts of "4,1", like self.avg.                                          *)
(***************************************************************************)
W(k, v) == [k |-> k, v |-> v]

NBlocks(f) == Cardinality({i \in 1..Len(f) : f[i].k = "BLOCK"})

(***************************************************************************)
(* int(self.nSubBands)/2 as format() prints it: floor division under       *)
(* Python 2, true division (a float, printed with a fraction) under        *)
(* Python 3. The value is held doubled so that a half is exact.            *)
(***************************************************************************)
HalfOf(n, python) ==
    IF python = 2 THEN [int |-> TRUE, twice |-> 2 * (n \div 2)]
    ELSE [int |-> FALSE, twice |-> n]

(***************************************************************************)
(* writeCalibrator: the lines written, and the returned start time.        *)
(***************************************************************************)
CalibratorLines(obj, startTime, calibrator, python) ==
    << W("BLOCK", <<>>),
       W("packageName", <<calibrator>>),
       W("startTimeUTC", <<startTime>>),
       W("targetDuration_s", <<600>>),
       W("clock", <<obj.clockFreq>>),
       W("instrumentFilter", <<obj.rcumode>>),
       W("nr_tasks", <<HalfOf(obj.nSubBands, python)>>),
       W("COMMON_STR", <<obj.rcumode>>),
       W("Global_Subbands", <<obj.subbands, obj.nSubBands>>),
       W("targetBeams", <<>>),
       W("beam", <<_getCalPointing(calibrator), calibrator, "1800">>),
       W("Demix", <<Num(4), Num(1), <<>>>>),
       W("blank", <<>>) >>

CalibratorReturn_NoSlew(startTime) == AddTicks(startTime, 10 * 60 * TicksPerSec)

CalibratorReturn(startTime) == AddTicks(startTime, 11 * 60 * TicksPerSec)

WriteCalibrator ==
    /\ pc = "ready"
    /\ calibName # ""
    /\ NBlocks(outFile) < MaxBlocks
    /\ outFile' = outFile \o CalibratorLines(self, nextStart, calibName, py)
    /\ nextStart' = CalibratorReturn(nextStart)
    /\ UNCHANGED <<gui, sky, py, self, pc, err, calibName>>

(***************************************************************************)
(* writeHBATarget.                                                         *)
(* '{}'.format(list) is the list's repr: a bracket, the quoted items       *)
(* separated by a comma and a space, a bracket; replace() then drops every *)
(* quote and every space. An item is kept whole: the items that reach this *)
(* line are names of VALID_ATEAMS, which hold neither character.           *)
(***************************************************************************)
RECURSIVE ReprItems(_, _)
ReprItems(l, i) ==
    IF i > Len(l) THEN <<>>
    ELSE (IF i > 1 THEN <<",", " ">> ELSE <<>>) \o <<"'", l[i], "'">>
         \o ReprItems(l, i + 1)

Repr(l) == <<"[">> \o ReprItems(l, 1) \o <<"]">>

Replace(s, ch) == SelectSeq(s, LAMBDA c : c # ch)

DemixStr_KeepSpaces(l) == Replace(Repr(l), "'")

DemixStr(l) == Replace(Replace(Repr(l), "'"), " ")

DemixCheck(l) ==
    IF l = <<>> \/ l = <<"">> THEN [exc |-> "none", demixStr |-> <<>>]
    ELSE IF Len(l) > 2 THEN [exc |-> "TooManyAteamError", demixStr |-> <<>>]
    ELSE IF \E i \in 1..Len(l) : l[i] \notin Range(VALID_ATEAMS)
         THEN [exc |-> "InvalidATeamError", demixStr |-> <<>>]
    ELSE [exc |-> "none", demixStr |-> DemixStr(l)]

_getTileBeam(obj) == <<"mean", obj.targetRA, obj.targetDec>>

(***************************************************************************)
(* The loop over the beams: the lines written so far, and the exception    *)
(* that ends it, if any.                                                   *)
(***************************************************************************)
RECURSIVE BeamLoop(_, _, _)
BeamLoop(obj, index, lines) ==
    IF index > obj.nBeams THEN [exc |-> "none", lines |-> lines]
    ELSE LET d == DemixCheck(obj.demixLabel[index]) IN
         IF d.exc # "none" THEN [exc |-> d.exc, lines |-> lines]
         ELSE BeamLoop(obj, index + 1,
                  lines \o << W("beam", <<obj.targetRA[index], obj.targetDec[index],
                                          obj.targetLabel[index], "31200">>),
                              W("Demix", <<obj.avg[1], obj.avg[2], d.demixStr>>) >>)

TargetDuration_s(obj) == obj.targetObsLength \div TicksPerSec

HBATargetLines(obj, startTime, python) ==
    IF obj.nBeams = 0
    THEN [exc |-> "IndexError", lines |-> << W("BLOCK", <<>>) >>]
    ELSE LET head ==
                 << W("BLOCK", <<>>),
                    W("packageName",
                      IF obj.nBeams = 1 THEN <<obj.targetLabel[1]>>
                      ELSE <<obj.targetLabel[1], obj.targetLabel[2]>>),
                    W("startTimeUTC", <<startTime>>),
                    W("targetDuration_s", <<TargetDuration_s(obj)>>),
                    W("clock", <<obj.clockFreq>>),
                    W("instrumentFilter", <<obj.rcumode>>),
                    W("nr_tasks", <<HalfOf(obj.nSubBands, python)>>),
                    W("COMMON_STR", <<obj.rcumode>>),
                    W("Global_Subbands", <<obj.subbands, obj.nSubBands>>),
                    W("targetBeams", <<>>) >>
                 \o (IF obj.nBeams > 1
                     THEN << W("beam", <<_getTileBeam(obj), "REF", "31200">>) >>
                     ELSE <<>>)
             b == BeamLoop(obj, 1, head) IN
         IF b.exc # "none" THEN b
         ELSE [exc |-> "none", lines |-> b.lines \o << W("blank", <<>>) >>]

HBATargetReturn(obj, startTime) ==
    AddTicks(startTime, obj.targetObsLength + 60 * TicksPerSec)

WriteHBATarget ==
    /\ pc = "ready"
    /\ NBlocks(outFile) < MaxBlocks
    /\ LET r == HBATargetLines(self, nextStart, py) IN
       /\ outFile' = outFile \o r.lines
       /\ err' = r.exc
       /\ pc' = IF r.exc = "none" THEN "ready" ELSE "raised"
       /\ nextStart' = IF r.exc = "none" THEN HBATargetReturn(self, nextStart)
                       ELSE nextStart
    /\ UNCHANGED <<gui, sky, py, self, calibName>>

(***************************************************************************)
(* Inputs. GoodGui is a form every field of which is valid; each           *)
(* specification varies the fields its operations read.                    *)
(***************************************************************************)
Modes == {"30-90 MHz", "170-230 MHz", "110-190 MHz"}

BandMin(mode) ==
    IF mode = "30-90 MHz" THEN 154 ELSE IF mode = "170-230 MHz" THEN 64 ELSE 51

BandMax(mode) ==
    IF mode = "30-90 MHz" THEN 461 ELSE IF mode = "170-230 MHz" THEN 448 ELSE 461

Labels == <<"A", "B", "C", "D">>

Line(i, demix) == <<Labels[i], "10:00:00", "+20:00:00">> \o demix

SeqsUpTo(S, n) == UNION {[1..k -> S] : k \in 0..n}

Pointings(demixes, n) ==
    UNION {{[i \in 1..k |-> Line(i, d[i])] : d \in [1..k -> demixes]} : k \in 0..n}

GoodGui ==
    [mainNameT |-> "L123456",
     dateT |-> <<Num(2017), Num(2), Num(28), Num(23), Num(55), Num(0)>>,
     elevationT |-> Num(30),
     avgT |-> <<Num(4), Num(1)>>,
     freqModeStr |-> "110-190 MHz",
     subbandT |-> << <<Num(104), Num(151)>> >>,
     pointT |-> <<Line(1, <<>>)>>,
     durationT |-> Num(3600 * TicksPerSec)]

GoodSky ==
    [cal |-> [n \in DOMAIN CalPointing |-> 50],
     tgt |-> [i \in 1..(MaxBeams + 1) |-> 40]]

Fresh ==
    /\ self = NoObject
    /\ pc = "new"
    /\ err = "none"
    /\ outFile = <<>>
    /\ calibName = ""
    /\ nextStart = NoTime

(***************************************************************************)
(* Spec: the whole generation. After construction the caller finds the     *)
(* calibrator and writes blocks, each starting at the time the previous    *)
(* write returned.                                                         *)
(***************************************************************************)
DemixPool ==
    { <<>>, <<"">>, <<"CasA">>, <<"Mars">>, <<"CygA", "VirA">>,
      <<"CasA", "CygA", "TauA">> }

SubbandPool ==
    { << <<Num(104)>> >>, << <<Num(104), Num(150)>> >>,
      << <<Num(104), Num(151)>> >> }

DurationPool ==
    { Num(-1), Num(0), Num(1), Num(2 * TicksPerSec + 1), Num(3600 * TicksPerSec) }

Init ==
    /\ gui \in {[GoodGui EXCEPT !.subbandT = sb, !.pointT = pt, !.durationT = d,
                                !.elevationT = Num(e)] :
                  sb \in SubbandPool, pt \in Pointings(DemixPool, MaxBeams),
                  d \in DurationPool, e \in {30, 90}}
    /\ sky = GoodSky
    /\ py \in {2, 3}
    /\ Fresh

Next == Construct \/ FindCalibrator \/ WriteCalibrator \/ WriteHBATarget

Spec == Init /\ [][Next]_vars

(***************************************************************************)
(* Reading the written file back: the blocks of outFile, in order.         *)
(***************************************************************************)
BlockAt(f) == {i \in 1..Len(f) : f[i].k = "BLOCK"}

BlockEnd(f, i) ==
    IF \E j \in BlockAt(f) : j > i
    THEN (CHOOSE j \in BlockAt(f) : j > i /\ \A k \in BlockAt(f) : k > i => j <= k) - 1
    ELSE Len(f)

Block(f, i) == SubSeq(f, i, BlockEnd(f, i))

IsCalibratorBlock(b) ==
    \E i \in 1..Len(b) : b[i].k = "beam" /\ b[i].v[Len(b[i].v)] = "1800"

IsComplete(b) == b[Len(b)].k = "blank"

Value(b, key) == b[CHOOSE i \in 1..Len(b) : b[i].k = key].v[1]

Has(b, key) == \E i \in 1..Len(b) : b[i].k = key

DemixLines(b) == SelectSeq(b, LAMBDA l : l.k = "Demix")

(***************************************************************************)
(* C1. Fail-fast with no partial output: whenever a validation error has   *)
(* surfaced (one of the named error kinds, the demix errors included),     *)
(* nothing has been written to the output, neither the calibrator block    *)
(* nor any line of a target block.                                         *)
(***************************************************************************)
ValidationErrors ==
    {"TooLongFolderNameError", "InvalidMainFolderNameError", "InvalidDateTimeError",
     "InvalidElevationError", "InvalidAverageError", "InvalidSubBandError",
     "OutOfBoundsSubBandError", "InvalidSubBandOrderError", "InvalidSubbandError",
     "TooManyBeamletsError", "InvalidDurationError", "TooManyAteamError",
     "InvalidATeamError"}

C1_NoPartialOutput ==
    (pc = "raised" /\ err \in ValidationErrors) => outFile = <<>>

(***************************************************************************)
(* C10. The nr_tasks value written in every block, calibrator or target,   *)
(* is the integer floor(nSubBands / 2).                                    *)
(***************************************************************************)
C10_NrTasksIsFloor ==
    \A i \in 1..Len(outFile) :
        outFile[i].k = "nr_tasks" =>
            /\ outFile[i].v[1].int
            /\ outFile[i].v[1].twice = 2 * (self.nSubBands \div 2)

(***************************************************************************)
(* C5. Demix handling of a target block write, beam by beam in order. The  *)
(* demix list of a beam is absent (or one empty string), too long (more    *)
(* than 2 entries), invalid (1 or 2 entries, one outside the A-team        *)
(* names) or valid. The write stops at the first beam whose list is too    *)
(* long or invalid, with TooManyAteamError or InvalidATeamError; every     *)
(* beam before it has its Demix line, with an empty demix field for an     *)
(* absent list and the rendering of the names for a valid one.             *)
(* C5_DemixNamesOnly renders the names alone, separated by commas (CasA    *)
(* for the list of CasA); C5_DemixBracketed renders them between square    *)
(* brackets, separated by commas, without quotes or spaces ([CasA]).       *)
(***************************************************************************)
ATeamNames == {"CasA", "CygA", "TauA", "VirA"}

DemixAbsent(l) == l = <<>> \/ l = <<"">>

DemixError(l) ==
    IF DemixAbsent(l) THEN "none"
    ELSE IF Len(l) > 2 THEN "TooManyAteamError"
    ELSE IF \E i \in 1..Len(l) : l[i] \notin ATeamNames THEN "InvalidATeamError"
    ELSE "none"

NamesOnly(l) == IF Len(l) = 1 THEN <<l[1]>> ELSE <<l[1], ",", l[2]>>

Bracketed(l) == <<"[">> \o NamesOnly(l) \o <<"]">>

FirstBadBeam(demix) ==
    IF \E i \in 1..Len(demix) : DemixError(demix[i]) # "none"
    THEN CHOOSE i \in 1..Len(demix) :
            /\ DemixError(demix[i]) # "none"
            /\ \A j \in 1..(i - 1) : DemixError(demix[j]) = "none"
    ELSE Len(demix) + 1

TargetWritten(f, g) ==
    /\ Len(g) > Len(f)
    /\ ~IsCalibratorBlock(SubSeq(g, Len(f) + 1, Len(g)))

DemixHandled(f, g, e, Render(_)) ==
    LET demix == [i \in 1..Len(gui.pointT) |->
                     SubSeq(gui.pointT[i], 4, Len(gui.pointT[i]))]
        bad == FirstBadBeam(demix)
        written == DemixLines(SubSeq(g, Len(f) + 1, Len(g))) IN
    /\ Len(written) = bad - 1
    /\ \A i \in 1..(bad - 1) :
          written[i].v[3] = IF DemixAbsent(demix[i]) THEN <<>> ELSE Render(demix[i])
    /\ e = IF bad <= Len(demix) THEN DemixError(demix[bad]) ELSE "none"

C5_DemixNamesOnly ==
    [][TargetWritten(outFile, outFile') /\ self.nBeams >= 1
          => DemixHandled(outFile, outFile', err', NamesOnly)]_vars

C5_DemixBracketed ==
    [][TargetWritten(outFile, outFile') /\ self.nBeams >= 1
          => DemixHandled(outFile, outFile', err', Bracketed)]_vars

C5_Witness ==
    /\ pc = "ready"
    /\ \E i \in 1..Len(outFile) :
          outFile[i].k = "Demix" /\ outFile[i].v[3] = <<"[", "CygA", ",", "VirA", "]">>
    /\ \E i \in 1..Len(outFile) :
          outFile[i].k = "Demix" /\ outFile[i].v[3] = <<"[", "CasA", "]">>

(***************************************************************************)
(* C6. Block timing along the chain of writes. A calibrator block writes   *)
(* targetDuration_s=600 and the next block starts 11 minutes after it; a   *)
(* target block is followed durationHours + 1 minute after its start. The  *)
(* start times increase strictly, and the scan interval of a block,        *)
(* [start, start + targetDuration_s seconds], ends before the start of     *)
(* the next block, and before the start time returned for the next one.    *)
(***************************************************************************)
Seconds(n) == n * TicksPerSec

BlockStep(b) ==
    IF IsCalibratorBlock(b) THEN Seconds(11 * 60)
    ELSE self.targetObsLength + Seconds(60)

Timed(f) == {i \in BlockAt(f) : Has(Block(f, i), "targetDuration_s")}

C6_BlockTiming ==
    LET f == outFile IN
    /\ \A i \in Timed(f) :
          LET b == Block(f, i)
              start == Value(b, "startTimeUTC")
              scanEnd == start.tick + Seconds(Value(b, "targetDuration_s")) IN
          /\ IsCalibratorBlock(b) => Value(b, "targetDuration_s") = 600
          /\ start.day = self.startTime.day
          /\ \A j \in Timed(f) :
                j > i =>
                   LET next == Value(Block(f, j), "startTimeUTC") IN
                   /\ start.tick < next.tick
                   /\ scanEnd < next.tick
                   /\ BlockEnd(f, i) + 1 = j => next.tick = start.tick + BlockStep(b)
          /\ (BlockEnd(f, i) = Len(f) /\ IsComplete(b)) =>
                /\ nextStart.tick = start.tick + BlockStep(b)
                /\ scanEnd < nextStart.tick

C6_Witness ==
    /\ NBlocks(outFile) >= 3
    /\ self.targetObsLength % TicksPerSec # 0
    /\ \E i \in BlockAt(outFile), j \in BlockAt(outFile) :
          /\ i < j
          /\ IsCalibratorBlock(Block(outFile, i))
          /\ ~IsCalibratorBlock(Block(outFile, j))
          /\ IsComplete(Block(outFile, j))

(***************************************************************************)
(* SpecSubBands: construction over the frequency modes and subband         *)
(* strings of up to MaxItems items; every other field is valid. The parts  *)
(* of an item are the bounds of the selected mode, their neighbours, one   *)
(* value inside, or text that is no integer.                               *)
(***************************************************************************)
SubBandValues(mode) ==
    {BandMin(mode) - 1, BandMin(mode), BandMin(mode) + 243, BandMax(mode),
     BandMax(mode) + 1}

ItemPool(mode) ==
    LET ints == {Num(n) : n \in SubBandValues(mode)}
        ends == {Num(BandMin(mode)), Num(BandMax(mode)), NaN} IN
    {<<a>> : a \in ints \cup {NaN}}
    \cup {<<a, b>> : a \in ints, b \in ints}
    \cup {<<NaN, Num(BandMin(mode))>>, <<Num(BandMin(mode)), NaN>>, <<NaN, NaN>>}
    \cup {<<Num(BandMin(mode)), Num(BandMax(mode)), c>> : c \in ends}
    \cup {<<Num(BandMax(mode)), Num(BandMin(mode)), Num(BandMin(mode))>>,
          <<Num(BandMin(mode)), NaN, Num(BandMax(mode))>>,
          <<Num(BandMin(mode)), Num(BandMax(mode) + 1), Num(BandMax(mode))>>}

InitSubBands ==
    /\ \E mode \in Modes :
          gui \in {[GoodGui EXCEPT !.freqModeStr = mode, !.subbandT = sb] :
                     sb \in SeqsUpTo(ItemPool(mode), MaxItems) \ {<<>>}}
    /\ sky = GoodSky
    /\ py = 3
    /\ Fresh

NextConstruct == Construct

SpecSubBands == InitSubBands /\ [][NextConstruct]_vars

(***************************************************************************)
(* The subband grammar as specified: an item is one integer, or a range of *)
(* exactly two integers a..b with a <= b, each within the bounds of the    *)
(* mode.                                                                   *)
(***************************************************************************)
IsSingle(item) == Len(item) = 1 /\ item[1].num

IsRange(item) == Len(item) = 2 /\ item[1].num /\ item[2].num /\ item[1].v <= item[2].v

Ends(item) == {item[i].v : i \in 1..Len(item)}

InBand(item, mode) == \A n \in Ends(item) : BandMin(mode) <= n /\ n <= BandMax(mode)

WellFormed(item, mode) == (IsSingle(item) \/ IsRange(item)) /\ InBand(item, mode)

SubBandErrors ==
    {"InvalidSubBandError", "OutOfBoundsSubBandError", "InvalidSubBandOrderError"}

SubBandsAccepted == pc # "new" /\ err \notin SubBandErrors

FirstOther(items, mode) ==
    CHOOSE i \in 1..Len(items) :
        /\ ~WellFormed(items[i], mode)
        /\ \A j \in 1..(i - 1) : WellFormed(items[j], mode)

(***************************************************************************)
(* C8. Subband bounds, by mode (30-90 MHz: 154..461, 170-230 MHz: 64..448, *)
(* any other: 51..461). A string whose items are single values or ranges   *)
(* a..b, a <= b, with every value at the exact minimum or maximum is       *)
(* accepted; when the first item that is not valid is a single value, or a *)
(* range a..b with a <= b, with a value equal to min-1 or max+1, the       *)
(* request is rejected with OutOfBoundsSubBandError; every subband index   *)
(* covered by an accepted string lies within [min, max]. Accepted means    *)
(* that the subband validation raised none of its three errors.            *)
(***************************************************************************)
C8_SubBandBounds ==
    pc # "new" =>
        LET items == gui.subbandT
            mode == gui.freqModeStr IN
        /\ (\A i \in 1..Len(items) :
               /\ IsSingle(items[i]) \/ IsRange(items[i])
               /\ Ends(items[i]) \subseteq {BandMin(mode), BandMax(mode)})
              => SubBandsAccepted
        /\ (\E i \in 1..Len(items) : ~WellFormed(items[i], mode)) =>
              LET item == items[FirstOther(items, mode)] IN
              ( /\ IsSingle(item) \/ IsRange(item)
                /\ Ends(item) \cap {BandMin(mode) - 1, BandMax(mode) + 1} # {} )
                 => err = "OutOfBoundsSubBandError"
        /\ SubBandsAccepted =>
              \A i \in 1..Len(items) :
                 LET lo == items[i][1].v
                     hi == IF Len(items[i]) = 1 THEN lo ELSE items[i][2].v IN
                 \A n \in lo..hi : BandMin(mode) <= n /\ n <= BandMax(mode)

C8_Witness ==
    /\ pc = "raised"
    /\ err = "OutOfBoundsSubBandError"
    /\ gui.freqModeStr = "170-230 MHz"
    /\ gui.subbandT = << <<Num(64), Num(448)>>, <<Num(64), Num(449)>> >>

(***************************************************************************)
(* C9. Subband item shape. An item holding '..' is accepted only if it     *)
(* splits into exactly two integers a and b with a <= b. The first item    *)
(* that is not valid decides the error: a range with another number of     *)
(* parts than two, or with a part that is no integer, and a single item    *)
(* that is no integer, give InvalidSubBandError; a range a..b with a > b   *)
(* gives InvalidSubBandOrderError.                                         *)
(***************************************************************************)
C9_ItemShape ==
    pc # "new" =>
        LET items == gui.subbandT
            mode == gui.freqModeStr IN
        /\ SubBandsAccepted =>
              \A i \in 1..Len(items) : Len(items[i]) > 1 => IsRange(items[i])
        /\ (\E i \in 1..Len(items) : ~WellFormed(items[i], mode)) =>
              LET item == items[FirstOther(items, mode)] IN
              /\ (Len(item) > 2 \/ \E k \in 1..Len(item) : ~item[k].num)
                    => err = "InvalidSubBandError"
              /\ (Len(item) = 2 /\ item[1].num /\ item[2].num /\ item[1].v > item[2].v)
                    => err = "InvalidSubBandOrderError"

(***************************************************************************)
(* SpecPointing: construction over pointing texts of up to MaxBeams lines  *)
(* (an empty line, a line of two fields, lines of three and more fields),  *)
(* subband strings whose counts reach the beamlet budget, and durations.   *)
(***************************************************************************)
LinePool(i) ==
    { <<"">>, <<Labels[i], "10:00:00">>, Line(i, <<>>), Line(i, <<"">>),
      Line(i, <<"CasA">>), Line(i, <<"CasA", "CygA">>) }

PointingTexts(n) ==
    UNION {{t \in [1..k -> UNION {LinePool(i) : i \in 1..k}] :
               \A i \in 1..k : t[i] \in LinePool(i)} : k \in 0..n}

CountPool(mode) ==
    { <<Num(BandMin(mode))>>,
      <<Num(BandMin(mode)), Num(BandMin(mode) + 243)>>,
      <<Num(BandMin(mode)), Num(BandMax(mode))>>,
      <<NaN>> }

InitPointing ==
    /\ \E mode \in Modes :
          gui \in {[GoodGui EXCEPT !.freqModeStr = mode, !.subbandT = sb,
                                   !.pointT = pt, !.durationT = d] :
                     sb \in SeqsUpTo(CountPool(mode), MaxItems) \ {<<>>},
                     pt \in PointingTexts(MaxBeams),
                     d \in {Num(0), Num(-1), NaN}}
    /\ sky = GoodSky
    /\ py = 3
    /\ Fresh

SpecPointing == InitPointing /\ [][NextConstruct]_vars

(***************************************************************************)
(* C3. Pointing parsing. With every field before the pointing text valid,  *)
(* a text holding a line of fewer than 3 comma-separated fields (an empty  *)
(* line included) fails construction with InvalidSubbandError and nothing  *)
(* else; a text whose lines all have 3 fields or more gives, once the      *)
(* request is constructed, four sequences of one entry per line in line    *)
(* order: label, ra, dec and the list of the fields after the third.       *)
(***************************************************************************)
SubBandsValid ==
    \A i \in 1..Len(gui.subbandT) : WellFormed(gui.subbandT[i], gui.freqModeStr)

ShortLine == \E i \in 1..Len(gui.pointT) : Len(gui.pointT[i]) < 3

C3_PointingParse ==
    (pc # "new" /\ SubBandsValid) =>
        /\ ShortLine => (pc = "raised" /\ err = "InvalidSubbandError")
        /\ (~ShortLine /\ pc = "ready") =>
              /\ Len(self.targetLabel) = Len(gui.pointT)
              /\ Len(self.targetRA) = Len(gui.pointT)
              /\ Len(self.targetDec) = Len(gui.pointT)
              /\ Len(self.demixLabel) = Len(gui.pointT)
              /\ \A i \in 1..Len(gui.pointT) :
                    /\ self.targetLabel[i] = gui.pointT[i][1]
                    /\ self.targetRA[i] = gui.pointT[i][2]
                    /\ self.targetDec[i] = gui.pointT[i][3]
                    /\ self.demixLabel[i] = SubSeq(gui.pointT[i], 4, Len(gui.pointT[i]))

(***************************************************************************)
(* C7. Beamlet budget. nBeams is the number of pointing lines, nSubBands   *)
(* the sum over the subband items of 1 for a single value and b-a+1 for a  *)
(* range a..b. Every constructed request holds these two counts and has    *)
(* nBeams * nSubBands <= 488; with the fields validated before valid, a    *)
(* product above 488 raises TooManyBeamletsError, and a product of 488 or  *)
(* less does not, the request being constructed when the duration is       *)
(* valid too.                                                              *)
(***************************************************************************)
RECURSIVE SumCounts(_)
SumCounts(items) ==
    IF items = <<>> THEN 0
    ELSE (IF Len(Head(items)) = 1 THEN 1
          ELSE Head(items)[2].v - Head(items)[1].v + 1) + SumCounts(Tail(items))

Beamlets == Len(gui.pointT) * SumCounts(gui.subbandT)

C7_BeamletBudget ==
    /\ pc = "ready" =>
          /\ self.nBeams = Len(gui.pointT)
          /\ self.nSubBands = SumCounts(gui.subbandT)
          /\ Beamlets <= 488
    /\ (pc # "new" /\ SubBandsValid /\ ~ShortLine) =>
          /\ Beamlets > 488 => (pc = "raised" /\ err = "TooManyBeamletsError")
          /\ Beamlets <= 488 => err # "TooManyBeamletsError"
          /\ (Beamlets <= 488 /\ gui.durationT.num /\ gui.durationT.v >= 0)
                => pc = "ready"

C7_Witness ==
    /\ pc = "ready"
    /\ self.nBeams = 2
    /\ self.nBeams * self.nSubBands = 488

(***************************************************************************)
(* SpecCalibrator: construction and calibrator selection over elevation    *)
(* thresholds, pointings of up to MaxBeams targets, and the elevations of  *)
(* the seven catalog entries and of the targets at the time of the call.   *)
(***************************************************************************)
Skies ==
    {[cal |-> [n \in DOMAIN CalPointing |->
                  IF n \in Range(VALID_CALIBS) THEN c[n] ELSE x[n]],
      tgt |-> t] :
        c \in [Range(VALID_CALIBS) -> {10, 40, 70}],
        x \in [{"3C286", "CTD93"} -> {10, 70}],
        t \in [1..(MaxBeams + 1) -> {25, 40}]}

InitCalibrator ==
    /\ gui \in {[GoodGui EXCEPT !.elevationT = Num(e), !.pointT = pt] :
                  e \in {0, 40, 90, 91}, pt \in Pointings({<<>>}, MaxBeams)}
    /\ sky \in Skies
    /\ py = 3
    /\ Fresh

NextCalibrator == Construct \/ FindCalibrator

SpecCalibrator == InitCalibrator /\ [][NextCalibrator]_vars

(***************************************************************************)
(* The selection as specified: the candidates are the 5 valid calibrators, *)
(* in catalog order, whose elevation exceeds the threshold; the best is    *)
(* the first candidate at minimal distance from the first target's         *)
(* elevation.                                                              *)
(***************************************************************************)
Catalog == <<"3C295", "3C196", "3C48", "3C147", "3C380">>

Candidates == {i \in 1..5 : sky.cal[Catalog[i]] > self.elevation}

Distance(i) == Abs(sky.cal[Catalog[i]] - sky.tgt[1])

Best ==
    Catalog[CHOOSE i \in Candidates :
               /\ \A j \in Candidates : Distance(i) <= Distance(j)
               /\ \A j \in Candidates : Distance(j) = Distance(i) => i <= j]

Selected == self.nBeams >= 1 /\ (calibName # "" \/ pc = "raised")

(***************************************************************************)
(* C2. When the selection runs for a request with a first target and no    *)
(* valid calibrator above the threshold, it fails with                     *)
(* NoCalibratorAvailable, with no other failure and without a name.        *)
(***************************************************************************)
C2_NoCalibratorAvailable ==
    (Selected /\ Candidates = {}) =>
        /\ pc = "raised"
        /\ err \in {"NoCalibratorAvailable", "NoCalibratorAvailableError"}
        /\ calibName = ""

(***************************************************************************)
(* C4. When the selection runs for a request with a first target and at    *)
(* least one valid calibrator strictly above the threshold, it returns the *)
(* best candidate: one of the 5 valid calibrators, above the threshold, at *)
(* minimal distance from the first target's elevation, the first such in   *)
(* catalog order. The later targets and the 2 extra catalog entries have   *)
(* no part in it.                                                          *)
(***************************************************************************)
C4_BestCalibrator ==
    (Selected /\ Candidates # {}) =>
        /\ pc = "ready"
        /\ err = "none"
        /\ calibName = Best

C4_Witness ==
    /\ calibName = "3C196"
    /\ self.elevation = 40
    /\ self.nBeams = 2
    /\ sky.tgt[1] = 40 /\ sky.tgt[2] = 25
    /\ sky.cal["3C295"] = 40 /\ sky.cal["3C196"] = 70
    /\ sky.cal["3C48"] = 10 /\ sky.cal["3C147"] = 70 /\ sky.cal["3C380"] = 70
    /\ sky.cal["3C286"] = 10 /\ sky.cal["CTD93"] = 70

====
